---- MODULE Spec2Model ----
(***************************************************************************)
(* Hybrid NOrec transactional memory of hynorec_cgrundey.cpp: the          *)
(* dispatcher of th_run (HTM attempts, then the NOrec software path), the  *)
(* software path sw_begin / sw_read / sw_write / sw_validate / sw_commit / *)
(* sw_abort, and the shared words seqlock, counter[] and accts[].          *)
(* Every load or store of a shared word is one step of one thread; an HTM  *)
(* region takes effect in one step, at _xend.                              *)
(***************************************************************************)
EXTENDS Integers, Sequences, FiniteSets, TLC

\* ------------------------------------------------------------------ sizes
numThreads == 2     \* argv[1]
NUM_ACCTS == 2      \* accounts (1000 in the source)
NUM_TXN == 2        \* transactions over all threads (100000 in the source)
BALANCE_UNITS == 2  \* INIT_BALANCE in units of TRFR_AMT (20 in the source)
TRANSFERS == 4      \* transfers per transaction, the j loop (10 in the source)
SPARE_SLOTS == 0    \* counter slots beyond the thread ids (72 slots in the source)
TRFR_AMT == 50
ATTEMPTS == 5
MAX_THREADS == 64
MaxArgLen == 2      \* characters of argv[1]
MaxArgc == 3        \* arguments on the command line, the program name included

INIT_BALANCE == BALANCE_UNITS * TRFR_AMT
NUM_SLOTS == numThreads + SPARE_SLOTS
workload == NUM_TXN \div numThreads

Threads == 0 .. (numThreads - 1)
Accts == 0 .. (NUM_ACCTS - 1)
Slots == 0 .. (NUM_SLOTS - 1)
\* The values `tid' takes once rand_r_32(&tid) has used it as its seed: an
\* index of a counter slot, or NUM_SLOTS for every index past the array.
OutOfRange == NUM_SLOTS
Seeds == Slots \cup {OutOfRange}
Pairs == {p \in Accts \X Accts : p[1] # p[2]}

VARIABLES
  accts, seqlock, counter, barriers,                 \* shared
  pc, ret,                                           \* position; sw_validate's caller
  tid, i, attempts, aborted, htmCount, swCount,      \* th_run
  rv, snap_counter, read_set, write_set,             \* thread_local
  r1, r2, a1, val, j, idx,                           \* locals and iterators
  xbegins, snaps, htm_since, live_at_cas, dirty, mem_at_cas,  \* history
  argc, argv, main_pc, usage, created, exit_status   \* main

startup == <<argc, argv, main_pc, usage, created, exit_status>>
shared == <<accts, seqlock, counter, barriers, startup>>
disp == <<tid, i, attempts, aborted, htmCount, swCount>>
logs == <<rv, snap_counter, read_set, write_set>>
locals == <<r1, r2, a1, val, j, idx>>
hist == <<xbegins, snaps, htm_since, live_at_cas, dirty, mem_at_cas>>
vars == <<shared, pc, ret, disp, logs, locals, hist>>

Odd(n) == n % 2 = 1
Acct(a, v) == [addr |-> a, value |-> v]
NoMem == << >>

\* ---------------------------------------------------------------- phases
HwPcs == {"hw_post_begin", "hw_body", "hw_aborted"}
ValPcs == {"val_rv", "val_scan", "val_recheck"}
WindowPcs == {"cmp", "wb", "release"}
SwPcs == {"sw_begin", "sw_snap", "sw_iter", "rd1", "rd1_load", "rd1_check", "rd2",
          "rd2_load", "rd2_check", "commit", "cas"} \cup ValPcs \cup WindowPcs

\* Thread t is between its successful CAS in sw_commit and its seqlock++.
InWindow(t) == pc[t] \in WindowPcs \/ (pc[t] \in ValPcs /\ ret[t] = "wb")
InAttempt(t) == pc[t] \in SwPcs

Consistent(rs, mem) == \A k \in 1 .. Len(rs) : mem[rs[k].addr] = rs[k].value

\* The memory states a live software attempt has lived through and that agree
\* with its read set, after shared memory became `mem'.
SnapsAfter(mem) ==
  [u \in Threads |->
     IF InAttempt(u) /\ Consistent(read_set[u], mem)
     THEN snaps[u] \cup {mem} ELSE snaps[u]]

\* -------------------------------------------------------------- arguments
\* argv[1] as the characters main hands to atoi.
Digit == ("0" :> 0) @@ ("1" :> 1) @@ ("2" :> 2) @@ ("3" :> 3) @@ ("4" :> 4) @@
         ("5" :> 5) @@ ("6" :> 6) @@ ("7" :> 7) @@ ("8" :> 8) @@ ("9" :> 9)
Chars == DOMAIN Digit \cup {"-", "x"}
Args == UNION {[1 .. n -> Chars] : n \in 0 .. MaxArgLen}

\* The decimal digits at the front of s, read onto acc.
RECURSIVE Decimal(_, _)
Decimal(s, acc) ==
  IF s = << >> \/ Head(s) \notin DOMAIN Digit THEN acc
  ELSE Decimal(Tail(s), 10 * acc + Digit[Head(s)])

\* atoi: an optional sign, then digits up to the first other character.
atoi(s) ==
  IF s # << >> /\ Head(s) = "-" THEN 0 - Decimal(Tail(s), 0) ELSE Decimal(s, 0)

\* The workers as main starts them, and the words only they write.
WorkerInit ==
  /\ counter = [s \in Slots |-> 0]
  /\ barriers = 0
  /\ pc = [t \in Threads |-> "barrier_add"]
  /\ ret = [t \in Threads |-> "none"]
  /\ tid = [t \in Threads |-> t]
  /\ i = [t \in Threads |-> 0]
  /\ attempts = [t \in Threads |-> 0]
  /\ aborted = [t \in Threads |-> FALSE]
  /\ htmCount = [t \in Threads |-> 0]
  /\ swCount = [t \in Threads |-> 0]
  /\ rv = [t \in Threads |-> 0]
  /\ snap_counter = [t \in Threads |-> [s \in Slots |-> 0]]
  /\ read_set = [t \in Threads |-> << >>]
  /\ write_set = [t \in Threads |-> << >>]
  /\ r1 = [t \in Threads |-> 0]
  /\ r2 = [t \in Threads |-> 0]
  /\ a1 = [t \in Threads |-> 0]
  /\ val = [t \in Threads |-> 0]
  /\ j = [t \in Threads |-> 0]
  /\ idx = [t \in Threads |-> 0]
  /\ xbegins = [t \in Threads |-> 0]
  /\ snaps = [t \in Threads |-> {}]
  /\ htm_since = [t \in Threads |-> FALSE]
  /\ live_at_cas = [t \in Threads |-> FALSE]
  /\ dirty = [t \in Threads |-> FALSE]
  /\ mem_at_cas = [t \in Threads |-> NoMem]

\* The state of the workers and the shared words when main has started them.
ThreadInit ==
  /\ accts = [a \in Accts |-> INIT_BALANCE]
  /\ seqlock = 0
  /\ WorkerInit

\* main was given the thread count and has created the workers.
Accepted ==
  /\ argc = 2
  /\ argv = CHOOSE s \in Args : Len(s) = 1 /\ atoi(s) = numThreads
  /\ main_pc = "th_run"
  /\ usage = FALSE
  /\ created = numThreads - 1
  /\ exit_status = << >>

Init == ThreadInit /\ Accepted

\* What one committed software transaction that moved the balance of every
\* other account to account 0 has left: the workers begin their last
\* `workload' transactions from there.
LaterMemory == [a \in Accts |-> IF a = 0 THEN NUM_ACCTS * INIT_BALANCE ELSE 0]
LaterInit ==
  /\ accts = LaterMemory
  /\ seqlock = 2
  /\ WorkerInit
  /\ Accepted

\* --------------------------------------------------------------- barrier
BarrierAdd(t) ==
  /\ pc[t] = "barrier_add"
  /\ barriers' = barriers + 1
  /\ pc' = [pc EXCEPT ![t] = "barrier_spin"]
  /\ UNCHANGED <<accts, seqlock, counter, startup, ret, disp, logs, locals, hist>>

\* A loop that stops one transaction short of the workload.
LoopHeadShort(n) == IF n < workload - 1 THEN "xbegin" ELSE "done"

\* The loop head of `for (i...)' followed by `do { int attempts = 5; again:'.
LoopHead(n) == IF n < workload THEN "xbegin" ELSE "done"

\* A barrier that lets the last but one arrival through.
BarrierOpenEarly == ~(barriers < numThreads - 1)

\* while (barriers[which] < numThreads) { }
BarrierOpen == ~(barriers < numThreads)

BarrierSpin(t) ==
  /\ pc[t] = "barrier_spin"
  /\ BarrierOpen
  /\ pc' = [pc EXCEPT ![t] = LoopHead(i[t])]
  /\ attempts' = [attempts EXCEPT ![t] = ATTEMPTS]
  /\ UNCHANGED <<shared, ret, tid, i, aborted, htmCount, swCount, logs, locals, hist>>

\* ------------------------------------------------------------ dispatcher
\* The end of one attempt of the software path: the history of the attempt
\* and the locals of the transfer loop go out of scope.
EndAttempt(t) ==
  /\ snaps' = [snaps EXCEPT ![t] = {}]
  /\ htm_since' = [htm_since EXCEPT ![t] = FALSE]
  /\ dirty' = [dirty EXCEPT ![t] = FALSE]
  /\ mem_at_cas' = [mem_at_cas EXCEPT ![t] = NoMem]
  /\ r1' = [r1 EXCEPT ![t] = 0]
  /\ r2' = [r2 EXCEPT ![t] = 0]
  /\ a1' = [a1 EXCEPT ![t] = 0]
  /\ val' = [val EXCEPT ![t] = 0]
  /\ j' = [j EXCEPT ![t] = 0]
  /\ idx' = [idx EXCEPT ![t] = 0]
  /\ ret' = [ret EXCEPT ![t] = "none"]

\* `while (aborted)' not taken, i++, the loop test, and the next `attempts = 5'.
NextTxn(t) ==
  /\ i' = [i EXCEPT ![t] = @ + 1]
  /\ pc' = [pc EXCEPT ![t] = LoopHead(i[t] + 1)]
  /\ attempts' = [attempts EXCEPT ![t] = ATTEMPTS]
  /\ xbegins' = [xbegins EXCEPT ![t] = 0]

\* again: aborted = false; status = _xbegin();
XBegin(t) ==
  /\ pc[t] = "xbegin"
  /\ pc' = [pc EXCEPT ![t] = "hw_post_begin"]
  /\ aborted' = [aborted EXCEPT ![t] = FALSE]
  /\ xbegins' = [xbegins EXCEPT ![t] = @ + 1]
  /\ live_at_cas' = [live_at_cas EXCEPT ![t] = FALSE]
  /\ UNCHANGED <<shared, ret, tid, i, attempts, htmCount, swCount, logs, locals,
                 snaps, htm_since, dirty, mem_at_cas>>

\* A prologue without the test of seqlock.
PrologueNeverAborts == FALSE

\* HW_POST_BEGIN: if (seqlock & 1) _xabort(1);
PrologueAborts == Odd(seqlock)

HWPostBegin(t) ==
  /\ pc[t] = "hw_post_begin"
  /\ pc' = [pc EXCEPT ![t] = IF PrologueAborts THEN "hw_aborted" ELSE "hw_body"]
  /\ UNCHANGED <<shared, ret, disp, logs, locals, hist>>

\* The region aborts (conflict, capacity, _xabort, a fault, any other cause):
\* _xbegin returns a status other than _XBEGIN_STARTED, with the registers and
\* memory of the region rolled back.
HWAbort(t) ==
  /\ pc[t] \in HwPcs
  /\ IF attempts[t] > 0
     THEN /\ attempts' = [attempts EXCEPT ![t] = @ - 1]
          /\ pc' = [pc EXCEPT ![t] = "xbegin"]
          /\ snaps' = snaps
     ELSE /\ attempts' = attempts
          /\ pc' = [pc EXCEPT ![t] = "sw_begin"]
          /\ snaps' = [snaps EXCEPT ![t] = {accts}]
  /\ UNCHANGED <<shared, ret, tid, i, aborted, htmCount, swCount, logs, locals,
                 xbegins, htm_since, live_at_cas, dirty, mem_at_cas>>

\* One transfer of the HTM body: both accounts are debited.
HTMTransfer(mem, p) ==
  [mem EXCEPT ![p[1]] = mem[p[1]] - TRFR_AMT, ![p[2]] = mem[p[2]] - TRFR_AMT]

\* The memories the HTM body can leave, from its k-th transfer on.
RECURSIVE HTMRun(_, _)
HTMRun(mem, k) ==
  IF k = TRANSFERS THEN {mem}
  ELSE UNION { IF mem[p[1]] < TRFR_AMT THEN {mem}
               ELSE HTMRun(HTMTransfer(mem, p), k + 1) : p \in Pairs }

\* HW_PRE_COMMIT: counter[tid].val += 1, with tid the seed rand_r_32 left.
CounterAfter(s) == IF s \in Slots THEN [counter EXCEPT ![s] = @ + 1] ELSE counter

\* A software attempt between its counter snapshot and its writeback.
Snapshotted(u) == InAttempt(u) /\ pc[u] \notin {"sw_begin", "sw_snap", "wb", "release"}

\* The region commits at _xend: its loads, its stores and the counter
\* increment take effect at once.  htmCount++, then the next transaction.
HWCommit(t) ==
  /\ pc[t] = "hw_body"
  /\ \E mem \in HTMRun(accts, 0), s \in Seeds :
       /\ accts' = mem
       /\ tid' = [tid EXCEPT ![t] = s]
       /\ counter' = CounterAfter(s)
       /\ snaps' = SnapsAfter(mem)
  /\ htmCount' = [htmCount EXCEPT ![t] = @ + 1]
  /\ htm_since' = [u \in Threads |-> htm_since[u] \/ Snapshotted(u)]
  /\ NextTxn(t)
  /\ UNCHANGED <<seqlock, barriers, startup, ret, aborted, swCount, logs, locals,
                 live_at_cas, dirty, mem_at_cas>>

\* --------------------------------------------------------- software path
\* sw_begin: do { rv = seqlock; } while (rv & 1);
SwBegin(t) ==
  /\ pc[t] = "sw_begin"
  /\ rv' = [rv EXCEPT ![t] = seqlock]
  /\ IF Odd(seqlock)
     THEN UNCHANGED <<pc, idx>>
     ELSE /\ pc' = [pc EXCEPT ![t] = "sw_snap"]
          /\ idx' = [idx EXCEPT ![t] = 0]
  /\ UNCHANGED <<shared, ret, disp, snap_counter, read_set, write_set,
                 r1, r2, a1, val, j, hist>>

\* sw_begin: std::copy of counter into snap_counter, one slot per step.
SwSnap(t) ==
  /\ pc[t] = "sw_snap"
  /\ snap_counter' = [snap_counter EXCEPT ![t][idx[t]] = counter[idx[t]]]
  /\ IF idx[t] + 1 < NUM_SLOTS
     THEN /\ idx' = [idx EXCEPT ![t] = @ + 1]
          /\ UNCHANGED <<pc, htm_since>>
     ELSE /\ idx' = [idx EXCEPT ![t] = 0]
          /\ pc' = [pc EXCEPT ![t] = "sw_iter"]
          /\ htm_since' = [htm_since EXCEPT ![t] = FALSE]
  /\ UNCHANGED <<shared, ret, disp, rv, read_set, write_set, r1, r2, a1, val, j,
                 xbegins, snaps, live_at_cas, dirty, mem_at_cas>>

\* for (j < 10): the loop is over, sw_commit is next.
SwIterDone(t) ==
  /\ pc[t] = "sw_iter"
  /\ ~(j[t] < TRANSFERS)
  /\ pc' = [pc EXCEPT ![t] = "commit"]
  /\ UNCHANGED <<shared, ret, disp, logs, locals, hist>>

\* while (r1 == r2) { r1 = rand_r_32(&tid) % NUM_ACCTS; r2 = ... }
SwIterPick(t) ==
  /\ pc[t] = "sw_iter"
  /\ j[t] < TRANSFERS
  /\ \E p \in Pairs, s \in Seeds :
       /\ r1' = [r1 EXCEPT ![t] = p[1]]
       /\ r2' = [r2 EXCEPT ![t] = p[2]]
       /\ tid' = [tid EXCEPT ![t] = s]
  /\ pc' = [pc EXCEPT ![t] = "rd1"]
  /\ UNCHANGED <<shared, ret, i, attempts, aborted, htmCount, swCount, logs,
                 a1, val, j, idx, hist>>

\* sw_read: the reverse scan of the write set.
Hits(ws, a) == {k \in 1 .. Len(ws) : ws[k].addr = a}
\* A scan from the front of the write set: the first write wins.
FirstWrite(ws, a) == ws[CHOOSE k \in Hits(ws, a) : \A m \in Hits(ws, a) : k <= m].value

LastWrite(ws, a) == ws[CHOOSE k \in Hits(ws, a) : \A m \in Hits(ws, a) : m <= k].value

\* if (a1 < TRFR_AMT) break;
AfterA1(v) == IF v < TRFR_AMT THEN "commit" ELSE "rd2"

\* sw_write(r1, a1 - TRFR_AMT); sw_write(r2, a2 + TRFR_AMT);
TransferWrites(t, a2) ==
  Append(Append(write_set[t], Acct(r1[t], a1[t] - TRFR_AMT)), Acct(r2[t], a2 + TRFR_AMT))

\* a1 = sw_read(r1), up to the load of shared memory.
Rd1(t) ==
  /\ pc[t] = "rd1"
  /\ IF Hits(write_set[t], r1[t]) # {}
     THEN /\ a1' = [a1 EXCEPT ![t] = LastWrite(write_set[t], r1[t])]
          /\ pc' = [pc EXCEPT ![t] = AfterA1(LastWrite(write_set[t], r1[t]))]
     ELSE /\ a1' = a1
          /\ pc' = [pc EXCEPT ![t] = "rd1_load"]
  /\ UNCHANGED <<shared, ret, disp, logs, r1, r2, val, j, idx, hist>>

\* int val = accts[addr].value;
Rd1Load(t) ==
  /\ pc[t] = "rd1_load"
  /\ val' = [val EXCEPT ![t] = accts[r1[t]]]
  /\ pc' = [pc EXCEPT ![t] = "rd1_check"]
  /\ UNCHANGED <<shared, ret, disp, logs, r1, r2, a1, j, idx, hist>>

\* while (rv != seqlock) { sw_validate(); val = accts[addr].value; }
Rd1Validate(t) ==
  /\ pc[t] = "rd1_check"
  /\ rv[t] # seqlock
  /\ pc' = [pc EXCEPT ![t] = "val_rv"]
  /\ ret' = [ret EXCEPT ![t] = "rd1_load"]
  /\ UNCHANGED <<shared, disp, logs, locals, hist>>

\* read_set.push_back({addr, val}), and what the attempt's snapshots keep.
Logged(t, addr) == Append(read_set[t], Acct(addr, val[t]))
SnapsKept(t, rs) == [snaps EXCEPT ![t] = {m \in @ : Consistent(rs, m)}]

\* sw_read(r1) returns val; then the test of a1.
Rd1Return(t) ==
  /\ pc[t] = "rd1_check"
  /\ rv[t] = seqlock
  /\ read_set' = [read_set EXCEPT ![t] = Logged(t, r1[t])]
  /\ snaps' = SnapsKept(t, Logged(t, r1[t]))
  /\ a1' = [a1 EXCEPT ![t] = val[t]]
  /\ pc' = [pc EXCEPT ![t] = AfterA1(val[t])]
  /\ UNCHANGED <<shared, ret, disp, rv, snap_counter, write_set, r1, r2, val, j, idx,
                 xbegins, htm_since, live_at_cas, dirty, mem_at_cas>>

\* a2 = sw_read(r2), up to the load of shared memory; on a hit, the two
\* sw_write calls and j++.
Rd2(t) ==
  /\ pc[t] = "rd2"
  /\ IF Hits(write_set[t], r2[t]) # {}
     THEN /\ write_set' = [write_set EXCEPT ![t] =
                             TransferWrites(t, LastWrite(write_set[t], r2[t]))]
          /\ j' = [j EXCEPT ![t] = @ + 1]
          /\ pc' = [pc EXCEPT ![t] = "sw_iter"]
     ELSE /\ UNCHANGED <<write_set, j>>
          /\ pc' = [pc EXCEPT ![t] = "rd2_load"]
  /\ UNCHANGED <<shared, ret, disp, rv, snap_counter, read_set, r1, r2, a1, val, idx,
                 hist>>

Rd2Load(t) ==
  /\ pc[t] = "rd2_load"
  /\ val' = [val EXCEPT ![t] = accts[r2[t]]]
  /\ pc' = [pc EXCEPT ![t] = "rd2_check"]
  /\ UNCHANGED <<shared, ret, disp, logs, r1, r2, a1, j, idx, hist>>

Rd2Validate(t) ==
  /\ pc[t] = "rd2_check"
  /\ rv[t] # seqlock
  /\ pc' = [pc EXCEPT ![t] = "val_rv"]
  /\ ret' = [ret EXCEPT ![t] = "rd2_load"]
  /\ UNCHANGED <<shared, disp, logs, locals, hist>>

\* sw_read(r2) returns val; then the two sw_write calls and j++.
Rd2Return(t) ==
  /\ pc[t] = "rd2_check"
  /\ rv[t] = seqlock
  /\ read_set' = [read_set EXCEPT ![t] = Logged(t, r2[t])]
  /\ snaps' = SnapsKept(t, Logged(t, r2[t]))
  /\ write_set' = [write_set EXCEPT ![t] = TransferWrites(t, val[t])]
  /\ j' = [j EXCEPT ![t] = @ + 1]
  /\ pc' = [pc EXCEPT ![t] = "sw_iter"]
  /\ UNCHANGED <<shared, ret, disp, rv, snap_counter, r1, r2, a1, val, idx,
                 xbegins, htm_since, live_at_cas, dirty, mem_at_cas>>

\* ------------------------------------------------------------ validation
\* A validation that does not wait for an even seqlock.
ValidateNeverSpins == FALSE

\* sw_validate: do { rv = seqlock; } while (rv & 1);
ValidateSpins == Odd(seqlock)

ValRv(t) ==
  /\ pc[t] = "val_rv"
  /\ rv' = [rv EXCEPT ![t] = seqlock]
  /\ IF ValidateSpins
     THEN UNCHANGED <<pc, idx>>
     ELSE /\ pc' = [pc EXCEPT ![t] = IF read_set[t] = << >> THEN "val_recheck"
                                     ELSE "val_scan"]
          /\ idx' = [idx EXCEPT ![t] = 1]
  /\ UNCHANGED <<shared, ret, disp, snap_counter, read_set, write_set,
                 r1, r2, a1, val, j, hist>>

\* if (iterator->value != accts[iterator->addr].value)
Stale(t) == read_set[t][idx[t]].value # accts[read_set[t][idx[t]].addr]

\* sw_validate: one entry of the read set still holds.
ValScan(t) ==
  /\ pc[t] = "val_scan"
  /\ ~Stale(t)
  /\ IF idx[t] < Len(read_set[t])
     THEN /\ idx' = [idx EXCEPT ![t] = @ + 1]
          /\ pc' = pc
     ELSE /\ idx' = idx
          /\ pc' = [pc EXCEPT ![t] = "val_recheck"]
  /\ UNCHANGED <<shared, ret, disp, logs, r1, r2, a1, val, j, hist>>

\* sw_abort: both sets are cleared and the throw lands in th_run's catch,
\* which sets aborted.
SwAbort(t) ==
  /\ pc[t] = "val_scan"
  /\ Stale(t)
  /\ read_set' = [read_set EXCEPT ![t] = << >>]
  /\ write_set' = [write_set EXCEPT ![t] = << >>]
  /\ aborted' = [aborted EXCEPT ![t] = TRUE]
  /\ pc' = [pc EXCEPT ![t] = "retry"]
  /\ EndAttempt(t)
  /\ UNCHANGED <<shared, tid, i, attempts, htmCount, swCount, rv, snap_counter,
                 xbegins, live_at_cas>>

\* while (aborted): the do loop starts over with attempts = 5.
Retry(t) ==
  /\ pc[t] = "retry"
  /\ aborted[t]
  /\ attempts' = [attempts EXCEPT ![t] = ATTEMPTS]
  /\ xbegins' = [xbegins EXCEPT ![t] = 0]
  /\ pc' = [pc EXCEPT ![t] = "xbegin"]
  /\ UNCHANGED <<shared, ret, tid, i, aborted, htmCount, swCount, logs, locals,
                 snaps, htm_since, live_at_cas, dirty, mem_at_cas>>

\* sw_validate: while (rv != seqlock), then the return to the caller (the
\* load of sw_read, the CAS of sw_commit, or its writeback after the break).
ValRecheck(t) ==
  /\ pc[t] = "val_recheck"
  /\ IF rv[t] # seqlock
     THEN /\ pc' = [pc EXCEPT ![t] = "val_rv"]
          /\ UNCHANGED <<ret, idx>>
     ELSE /\ pc' = [pc EXCEPT ![t] = ret[t]]
          /\ ret' = [ret EXCEPT ![t] = "none"]
          /\ idx' = [idx EXCEPT ![t] = IF ret[t] = "wb" THEN 1 ELSE 0]
  /\ UNCHANGED <<shared, disp, logs, r1, r2, a1, val, j, hist>>

\* ---------------------------------------------------------------- commit
\* sw_commit: if (write_set.empty()) return; then swCount++.
CommitEmpty(t) ==
  /\ pc[t] = "commit"
  /\ write_set[t] = << >>
  /\ swCount' = [swCount EXCEPT ![t] = @ + 1]
  /\ NextTxn(t)
  /\ EndAttempt(t)
  /\ UNCHANGED <<shared, tid, aborted, htmCount, logs, live_at_cas>>

CommitStart(t) ==
  /\ pc[t] = "commit"
  /\ write_set[t] # << >>
  /\ pc' = [pc EXCEPT ![t] = "cas"]
  /\ UNCHANGED <<shared, ret, disp, logs, locals, hist>>

\* A plain store in place of the compare-and-swap.
CasAlwaysSucceeds(t) == TRUE

\* __sync_bool_compare_and_swap(&seqlock, rv, rv + 1)
CasSucceeds(t) == seqlock = rv[t]

\* The CAS succeeds.  Every HTM region that has read seqlock loses the line
\* and is rolled back by the hardware.
CasOk(t) ==
  /\ pc[t] = "cas"
  /\ CasSucceeds(t)
  /\ seqlock' = rv[t] + 1
  /\ pc' = [u \in Threads |-> IF u = t THEN "cmp"
                               ELSE IF pc[u] = "hw_body" THEN "hw_aborted" ELSE pc[u]]
  /\ idx' = [idx EXCEPT ![t] = 0]
  /\ dirty' = [dirty EXCEPT ![t] = TRUE]
  /\ mem_at_cas' = [mem_at_cas EXCEPT ![t] = accts]
  /\ live_at_cas' = [u \in Threads |->
                       live_at_cas[u] \/ pc[u] \in {"hw_post_begin", "hw_body"}]
  /\ UNCHANGED <<accts, counter, barriers, startup, ret, disp, logs, r1, r2, a1, val, j,
                 xbegins, snaps, htm_since>>

\* The CAS fails: sw_validate(), then the CAS again.
CasFail(t) ==
  /\ pc[t] = "cas"
  /\ ~CasSucceeds(t)
  /\ pc' = [pc EXCEPT ![t] = "val_rv"]
  /\ ret' = [ret EXCEPT ![t] = "cas"]
  /\ UNCHANGED <<shared, disp, logs, locals, hist>>

\* for (i < 72) if (snap_counter[i].val != counter[i].val) { sw_validate(); break; }
Cmp(t) ==
  /\ pc[t] = "cmp"
  /\ IF snap_counter[t][idx[t]] # counter[idx[t]]
     THEN /\ pc' = [pc EXCEPT ![t] = "val_rv"]
          /\ ret' = [ret EXCEPT ![t] = "wb"]
          /\ idx' = idx
     ELSE /\ ret' = ret
          /\ IF idx[t] + 1 < NUM_SLOTS
             THEN /\ idx' = [idx EXCEPT ![t] = @ + 1]
                  /\ pc' = pc
             ELSE /\ idx' = [idx EXCEPT ![t] = 1]
                  /\ pc' = [pc EXCEPT ![t] = "wb"]
  /\ UNCHANGED <<shared, disp, logs, r1, r2, a1, val, j, hist>>

\* A writeback that walks the write set from its end.
StoredReversed(t) ==
  [accts EXCEPT ![write_set[t][Len(write_set[t]) + 1 - idx[t]].addr] =
                   write_set[t][Len(write_set[t]) + 1 - idx[t]].value]

\* WRITEBACK: accts[iterator->addr].value = iterator->value;
Stored(t) == [accts EXCEPT ![write_set[t][idx[t]].addr] = write_set[t][idx[t]].value]

Wb(t) ==
  /\ pc[t] = "wb"
  /\ accts' = Stored(t)
  /\ snaps' = SnapsAfter(Stored(t))
  /\ IF idx[t] < Len(write_set[t])
     THEN /\ idx' = [idx EXCEPT ![t] = @ + 1]
          /\ pc' = pc
     ELSE /\ idx' = idx
          /\ pc' = [pc EXCEPT ![t] = "release"]
  /\ dirty' = [dirty EXCEPT ![t] = TRUE]
  /\ UNCHANGED <<seqlock, counter, barriers, startup, ret, disp, logs, r1, r2, a1, val, j,
                 xbegins, htm_since, live_at_cas, mem_at_cas>>

\* seqlock++; read_set.clear(); write_set.clear(); then swCount++.
Release(t) ==
  /\ pc[t] = "release"
  /\ seqlock' = seqlock + 1
  /\ read_set' = [read_set EXCEPT ![t] = << >>]
  /\ write_set' = [write_set EXCEPT ![t] = << >>]
  /\ swCount' = [swCount EXCEPT ![t] = @ + 1]
  /\ NextTxn(t)
  /\ EndAttempt(t)
  /\ UNCHANGED <<accts, counter, barriers, startup, tid, aborted, htmCount, rv, snap_counter,
                 live_at_cas>>

\* ------------------------------------------------------------------ spec
\* One step of th_run in thread t.
ThreadNext(t) ==
  \/ BarrierAdd(t) \/ BarrierSpin(t)
  \/ XBegin(t) \/ HWPostBegin(t) \/ HWAbort(t) \/ HWCommit(t)
  \/ SwBegin(t) \/ SwSnap(t) \/ SwIterDone(t) \/ SwIterPick(t)
  \/ Rd1(t) \/ Rd1Load(t) \/ Rd1Validate(t) \/ Rd1Return(t)
  \/ Rd2(t) \/ Rd2Load(t) \/ Rd2Validate(t) \/ Rd2Return(t)
  \/ ValRv(t) \/ ValScan(t) \/ SwAbort(t) \/ Retry(t) \/ ValRecheck(t)
  \/ CommitEmpty(t) \/ CommitStart(t) \/ CasOk(t) \/ CasFail(t)
  \/ Cmp(t) \/ Wb(t) \/ Release(t)

Next == \E t \in Threads : ThreadNext(t)

Spec == Init /\ [][Next]_vars

\* The scheduler runs every thread that can move.
FairSpec == Spec /\ \A t \in Threads : WF_vars(ThreadNext(t))

\* The run from a later transaction on.
LaterSpec == LaterInit /\ [][Next]_vars

\* ------------------------------------------------------- software path only
\* One step of th_run in thread t on a machine where every HTM region aborts:
\* _xend is never reached.
NorecNext(t) ==
  \/ BarrierAdd(t) \/ BarrierSpin(t)
  \/ XBegin(t) \/ HWPostBegin(t) \/ HWAbort(t)
  \/ SwBegin(t) \/ SwSnap(t) \/ SwIterDone(t) \/ SwIterPick(t)
  \/ Rd1(t) \/ Rd1Load(t) \/ Rd1Validate(t) \/ Rd1Return(t)
  \/ Rd2(t) \/ Rd2Load(t) \/ Rd2Validate(t) \/ Rd2Return(t)
  \/ ValRv(t) \/ ValScan(t) \/ SwAbort(t) \/ Retry(t) \/ ValRecheck(t)
  \/ CommitEmpty(t) \/ CommitStart(t) \/ CasOk(t) \/ CasFail(t)
  \/ Cmp(t) \/ Wb(t) \/ Release(t)

NorecSpec ==
  /\ Init
  /\ [][\E t \in Threads : NorecNext(t)]_vars
  /\ \A t \in Threads : WF_vars(NorecNext(t))

\* --------------------------------------------------------------------- main
workers == <<accts, seqlock, counter, barriers, pc, ret, disp, logs, locals, hist>>

\* main is entered with any argument vector; argv[1] exists when argc > 1.
MainInit ==
  /\ ThreadInit
  /\ argc \in 1 .. MaxArgc
  /\ argv \in IF argc > 1 THEN Args ELSE {<< >>}
  /\ main_pc = "check_args"
  /\ usage = FALSE
  /\ created = 0
  /\ exit_status = << >>

\* printf("Usage: <# of threads 1-64>\n"); exit(0);
Usage ==
  /\ usage' = TRUE
  /\ exit_status' = <<0>>
  /\ main_pc' = "exited"
  /\ UNCHANGED <<argc, argv, created, workers>>

\* if (argc != 2)
MainArgc ==
  /\ main_pc = "check_args"
  /\ argc # 2
  /\ Usage

\* if (numThreads <= 0 || numThreads > 64)
BadCount(n) == n <= 0 \/ n > MAX_THREADS

MainRange ==
  /\ main_pc = "check_args"
  /\ argc = 2
  /\ BadCount(atoi(argv))
  /\ Usage

\* The argument passes: main goes on to start the workers.
MainAccept ==
  /\ main_pc = "check_args"
  /\ argc = 2
  /\ ~BadCount(atoi(argv))
  /\ main_pc' = "create"
  /\ UNCHANGED <<argc, argv, usage, created, exit_status, workers>>

\* for (int i = 1; i < numThreads; i++) pthread_create(...)
MainCreate ==
  /\ main_pc = "create"
  /\ created < atoi(argv) - 1
  /\ created' = created + 1
  /\ UNCHANGED <<argc, argv, main_pc, usage, exit_status, workers>>

\* th_run(0) in the main thread.
MainRun ==
  /\ main_pc = "create"
  /\ ~(created < atoi(argv) - 1)
  /\ main_pc' = "th_run"
  /\ UNCHANGED <<argc, argv, usage, created, exit_status, workers>>

MainNext == MainArgc \/ MainRange \/ MainAccept \/ MainCreate \/ MainRun

MainSpec == MainInit /\ [][MainNext]_vars

\* ================================================================ claims
Window == {t \in Threads : InWindow(t)}
HTMCommits(t) == htmCount'[t] = htmCount[t] + 1

\* C1 (opacity): every live software attempt has, after each sw_read that
\* returned, one memory state since its sw_begin that holds every (addr, value)
\* pair of its read set.
C1_Opacity == \A t \in Threads : InAttempt(t) => snaps[t] # {}

\* C2 (serializability of writers): when a software transaction starts its
\* writeback loop, every entry of its read set equals shared memory.
C2_ReadSetCurrentAtWriteback ==
  \A t \in Threads :
    (pc[t] = "wb" /\ idx[t] = 1) => Consistent(read_set[t], accts)

\* C3 (writeback exclusion): seqlock is odd exactly when one thread is between
\* its successful CAS and its seqlock++, and never are two threads there.
C3_WritebackExclusion ==
  /\ Cardinality(Window) <= 1
  /\ Odd(seqlock) <=> Cardinality(Window) = 1

\* C3 witness: a thread holds the window while another, with a non-empty write
\* set, is at its CAS.
C3_Witness ==
  \E t, u \in Threads :
    /\ t # u /\ InWindow(t) /\ Odd(seqlock)
    /\ pc[u] = "cas" /\ write_set[u] # << >>

\* C4 as stated: no HTM transaction commits while seqlock is odd, a region that
\* reads seqlock odd in its prologue aborts, and a region in flight when a
\* CAS makes seqlock odd does not commit.
C4_NoCommitOfRegionLiveAtCas ==
  [][\A t \in Threads :
       /\ HTMCommits(t) => (~Odd(seqlock) /\ ~live_at_cas[t])
       /\ (pc[t] = "hw_post_begin" /\ Odd(seqlock) /\ pc'[t] # pc[t])
            => (pc'[t] \in {"hw_aborted", "xbegin", "sw_begin"} /\ ~HTMCommits(t))
    ]_vars

\* C4 amended: no HTM transaction commits while seqlock is odd; a region that
\* reads seqlock odd in its prologue aborts; a region that has read seqlock in
\* its prologue and is in flight when a CAS makes seqlock odd does not commit.
C4_NoCommitWhileOdd ==
  /\ [](\A t \in Threads : pc[t] = "hw_body" => ~Odd(seqlock))
  /\ [][\A t \in Threads :
          /\ HTMCommits(t) => (~Odd(seqlock) /\ pc[t] = "hw_body")
          /\ (pc[t] = "hw_post_begin" /\ Odd(seqlock) /\ pc'[t] # pc[t])
               => (pc'[t] \in {"hw_aborted", "xbegin", "sw_begin"} /\ ~HTMCommits(t))
          /\ (pc[t] = "hw_body" /\ Odd(seqlock'))
               => (pc'[t] = "hw_aborted" /\ ~HTMCommits(t))
       ]_vars

\* C4 witness: a region was rolled back, or read seqlock odd, while a software
\* writer holds the window.
C4_Witness ==
  \E t, u \in Threads : t # u /\ pc[t] = "hw_aborted" /\ InWindow(u) /\ Odd(seqlock)

\* C5 (HTM/SW mutual visibility): when the counter comparison of sw_commit ends
\* without a differing slot, no HTM transaction has committed since the
\* attempt's snapshot.
C5_HtmCommitSeenByCompare ==
  [][\A t \in Threads : (pc[t] = "cmp" /\ pc'[t] = "wb") => ~htm_since[t]]_vars

\* C6 (progress): while some thread has unfinished transactions, some step of
\* some thread still changes the state: no reachable state has every
\* unfinished thread spinning for good.
C6_NoStuckState == (\A t \in Threads : pc[t] = "done") \/ ENABLED <<Next>>_vars

\* C7 (abort leaves no effects): the step that aborts a software attempt is
\* taken by a thread that has neither acquired the window nor stored a
\* buffered write in this attempt; it leaves accts, seqlock and counter as
\* they are and the thread's sets empty, and the next step of the thread is
\* the dispatcher's retry.
C7_AbortLeavesNoEffects ==
  [][\A t \in Threads :
       /\ (pc[t] # "retry" /\ pc'[t] = "retry")
            => /\ ~dirty[t] /\ ~InWindow(t)
               /\ accts' = accts /\ seqlock' = seqlock /\ counter' = counter
               /\ read_set'[t] = << >> /\ write_set'[t] = << >>
               /\ aborted'[t]
       /\ (pc[t] = "retry" /\ pc'[t] # "retry") => pc'[t] = "xbegin"
    ]_vars

\* C7 witness: an attempt has aborted and waits for the dispatcher's retry
\* while shared memory differs from its initial contents.
C7_Witness ==
  \E t \in Threads :
    pc[t] = "retry" /\ aborted[t] /\ accts # [a \in Accts |-> INIT_BALANCE]

RECURSIVE SumTo(_, _)
SumTo(mem, n) == IF n = 0 THEN 0 ELSE mem[n - 1] + SumTo(mem, n - 1)

\* main: totalMoney += accts[i].value over all accounts.
TotalMoney == SumTo(accts, NUM_ACCTS)

\* C8 (conservation): in every quiescent state (seqlock even, no HTM region in
\* flight) the sum of all accounts is NUM_ACCTS * INIT_BALANCE.
C8_Conservation ==
  (~Odd(seqlock) /\ \A t \in Threads : pc[t] \notin HwPcs)
    => TotalMoney = NUM_ACCTS * INIT_BALANCE

\* C9 (HTM attempt bound): in one pass of the dispatcher at most five _xbegin
\* calls are made, and the software path is entered only after them.
C9_AtMostFiveHtmAttempts ==
  \A t \in Threads :
    /\ xbegins[t] <= 5
    /\ (InAttempt(t) => xbegins[t] >= 1)

MostRecent(ws, a, v) ==
  \E k \in 1 .. Len(ws) :
    /\ ws[k] = Acct(a, v)
    /\ \A m \in (k + 1) .. Len(ws) : ws[m].addr # a
Written(t, a) == \E k \in 1 .. Len(write_set[t]) : write_set[t][k].addr = a
\* a2, as the credit that sw_write(r2, a2 + TRFR_AMT) has just logged.
ReturnedA2(t) == write_set[t][Len(write_set[t])].value - TRFR_AMT
QuietRead(t) ==
  /\ read_set'[t] = read_set[t]
  /\ val'[t] = val[t]
  /\ rv'[t] = rv[t]
  /\ pc'[t] \notin {"rd1_load", "rd2_load", "val_rv"}

\* C11: read-your-writes.  A sw_read of an address the attempt has written
\* returns the value of the latest sw_write to it without loading shared
\* memory, without validating and without logging; a sw_read of any other
\* address appends exactly one entry, (addr, returned value), to the read set.
C11_ReadYourWrites ==
  [][\A t \in Threads :
       /\ pc[t] = "rd1" /\ pc'[t] # "rd1" /\ Written(t, r1[t])
            => MostRecent(write_set[t], r1[t], a1'[t]) /\ QuietRead(t)
       /\ pc[t] = "rd2" /\ pc'[t] # "rd2" /\ Written(t, r2[t])
            => MostRecent(write_set[t], r2[t], ReturnedA2(t)') /\ QuietRead(t)
       /\ pc[t] = "rd1" /\ pc'[t] # "rd1" /\ ~Written(t, r1[t])
            => pc'[t] = "rd1_load" /\ read_set'[t] = read_set[t]
       /\ pc[t] = "rd2" /\ pc'[t] # "rd2" /\ ~Written(t, r2[t])
            => pc'[t] = "rd2_load" /\ read_set'[t] = read_set[t]
       /\ pc[t] = "rd1_check" /\ pc'[t] \notin {"rd1_check", "val_rv"}
            => read_set'[t] = Append(read_set[t], Acct(r1[t], a1'[t]))
       /\ pc[t] = "rd2_check" /\ pc'[t] \notin {"rd2_check", "val_rv"}
            => read_set'[t] = Append(read_set[t], Acct(r2[t], ReturnedA2(t)'))
       /\ Len(read_set'[t]) > Len(read_set[t])
            => pc[t] \in {"rd1_check", "rd2_check"}]_vars

\* sw_read(r1) has returned from the write set, which holds an older and
\* different value for r1 too.
C11_Witness ==
  \E t \in Threads :
    /\ pc[t] = "rd2"
    /\ MostRecent(write_set[t], r1[t], a1[t])
    /\ \E k \in 1 .. Len(write_set[t]) :
         write_set[t][k].addr = r1[t] /\ write_set[t][k].value # a1[t]

\* C12: single-writer counters.  A counter slot changes only in the step in
\* which the thread of that index commits an HTM region, and then by exactly
\* one; every HTM commit of thread t adds one to slot t; no step of the
\* software path changes a slot.
C12_SingleWriterCounters ==
  [][/\ \A s \in Slots :
          counter'[s] # counter[s]
            => s \in Threads /\ HTMCommits(s) /\ counter'[s] = counter[s] + 1
     /\ \A t \in Threads : HTMCommits(t) => counter'[t] = counter[t] + 1]_vars

BarrierPcs == {"barrier_add", "barrier_spin"}
AllCalled == \A u \in Threads : pc[u] # "barrier_add"

\* C13: startup barrier.  No thread is past barrier(0), in its first or a
\* later transaction, while some thread has not yet called it; and once every
\* thread has called it, every thread gets past it.
C13_StartupBarrier ==
  /\ [](\A t \in Threads : pc[t] \notin BarrierPcs => AllCalled)
  /\ AllCalled ~> (\A t \in Threads : pc[t] \notin BarrierPcs)

\* Every thread has called barrier(0); one has returned from it, one has not.
C13_Witness ==
  /\ AllCalled
  /\ \E t, u \in Threads : pc[t] = "barrier_spin" /\ pc[u] \notin BarrierPcs

BadArguments == argc # 2 \/ atoi(argv) \notin 1 .. MAX_THREADS

\* C14: configuration error.  When main is given no thread count, more than
\* one argument, or a count outside 1..64, it prints the usage line, creates
\* no worker and exits with a non-zero status.
C14_ConfigurationError ==
  main_pc # "check_args" /\ BadArguments
    => /\ usage
       /\ created = 0
       /\ main_pc = "exited"
       /\ exit_status # << >>
       /\ exit_status[1] # 0

NoLogs(t) == read_set[t] = << >> /\ write_set[t] = << >>

\* C15: logs are per attempt.  The read set and the write set of a thread
\* are both empty when its sw_begin returns, when its sw_commit returns (with
\* an empty write set too), and after its sw_abort.
C15_LogsPerAttempt ==
  [][\A t \in Threads :
       /\ pc[t] = "sw_snap" /\ pc'[t] = "sw_iter" => NoLogs(t)'
       /\ pc[t] \in {"commit", "release"} /\ pc'[t] \notin SwPcs => NoLogs(t)'
       /\ pc[t] # "retry" /\ pc'[t] = "retry" => NoLogs(t)']_vars

ReadOnlyPcs == {"sw_begin", "sw_snap", "sw_iter", "rd1", "rd1_load", "rd1_check",
                "rd2", "rd2_load", "rd2_check"} \cup ValPcs
InReadOnlyCode(t) ==
  pc[t] \in ReadOnlyPcs \/ (pc[t] = "commit" /\ write_set[t] = << >>)
\* The step is one of thread t.
Moved(t) ==
  <<pc[t], ret[t], tid[t], rv[t], snap_counter[t], read_set[t], write_set[t], r1[t],
    r2[t], a1[t], val[t], j[t], idx[t], swCount[t]>>' #
  <<pc[t], ret[t], tid[t], rv[t], snap_counter[t], read_set[t], write_set[t], r1[t],
    r2[t], a1[t], val[t], j[t], idx[t], swCount[t]>>
WritebackStore(t) ==
  /\ pc[t] = "wb"
  /\ Odd(seqlock) /\ seqlock = rv[t] + 1 /\ Window = {t}
  /\ \E k \in 1 .. Len(write_set[t]) :
       accts' = [accts EXCEPT ![write_set[t][k].addr] = write_set[t][k].value]

\* C16: shared words change only in a commit.  An account word changes only
\* in the step that commits an HTM region, or in a writeback store of an entry
\* of its write set by the software thread whose CAS made seqlock odd; and no
\* step of sw_begin, sw_read, sw_write, sw_validate or of a sw_commit with an
\* empty write set changes an account word, seqlock or a counter slot.
C16_StoresOnlyInCommit ==
  [][/\ accts' # accts
          => \E t \in Threads : (pc[t] = "hw_body" /\ HTMCommits(t)) \/ WritebackStore(t)
     /\ \A t \in Threads :
          InReadOnlyCode(t) /\ Moved(t)
            => accts' = accts /\ seqlock' = seqlock /\ counter' = counter]_vars

\* A writeback has changed an account and the window is still held.
C16_Witness ==
  \E t \in Threads :
    /\ pc[t] = "wb" /\ idx[t] > 1
    /\ Odd(seqlock) /\ seqlock = rv[t] + 1
    /\ accts # mem_at_cas[t]

CasStep(t) ==
  /\ pc[t] = "cas" /\ pc'[t] = "cmp"
  /\ ~Odd(rv[t]) /\ seqlock = rv[t] /\ seqlock' = rv[t] + 1
ReleaseStep(t) ==
  /\ pc[t] = "release" /\ pc'[t] \notin SwPcs
  /\ dirty[t] /\ Window = {t}
  /\ seqlock' = rv[t] + 2

\* C17: seqlock transitions.  seqlock never decreases and changes by one at
\* a time; it goes from even to odd only in a successful CAS of sw_commit,
\* from the even rv of the committing thread to rv + 1; it goes from odd to
\* even only in the seqlock++ of that same thread after its writeback, which
\* leaves rv + 2; no HTM commit and no commit with an empty write set changes
\* it.
C17_SeqlockTransitions ==
  [][/\ seqlock' \in {seqlock, seqlock + 1}
     /\ ~Odd(seqlock) /\ seqlock' # seqlock => \E t \in Threads : CasStep(t)
     /\ Odd(seqlock) /\ seqlock' # seqlock => \E t \in Threads : ReleaseStep(t)
     /\ \A t \in Threads :
          (HTMCommits(t) \/ (pc[t] = "commit" /\ write_set[t] = << >> /\ Moved(t)))
            => seqlock' = seqlock]_vars

\* A second software commit has released the window: seqlock went from the
\* thread's rv, 2, through 3 to 4.
C17_Witness ==
  \E t \in Threads :
    pc[t] \notin SwPcs /\ swCount[t] > 0 /\ rv[t] > 0 /\ seqlock = rv[t] + 2

ValidatingInWindow(t) == pc[t] \in ValPcs /\ ret[t] = "wb"

\* C18: commit after a concurrent HTM commit.  A thread that has won the CAS
\* of sw_commit, found a counter slot changed and called sw_validate with a
\* read set that still equals memory is never left without a step that changes
\* the state: its sw_validate goes on to return, so that the writeback and the
\* release of seqlock follow.
C18_CommitAfterHtmCommit ==
  \A t \in Threads :
    ValidatingInWindow(t) /\ Consistent(read_set[t], accts)
      => ENABLED <<ThreadNext(t)>>_vars

AbortStep(t) == pc[t] # "retry" /\ pc'[t] = "retry"
HoldsWindow(t) == dirty[t] /\ Odd(seqlock) /\ t \in Window

\* C19: no abort while holding the window.  The step that runs sw_abort is
\* never taken by the thread whose CAS made seqlock odd and who has not yet
\* released it, so never after one of its write-set entries was stored; and
\* whenever an abort leaves seqlock odd, another thread holds the window.
C19_NoAbortInWindow ==
  [][\A t \in Threads :
       AbortStep(t)
         => /\ ~HoldsWindow(t)
            /\ mem_at_cas[t] = NoMem
            /\ Odd(seqlock') => \E u \in Threads \ {t} : HoldsWindow(u)']_vars

\* The thread that holds the window is in sw_validate with a read set that
\* memory no longer matches: the scan that would call sw_abort is not reached.
C19_Witness ==
  \E t \in Threads :
    /\ HoldsWindow(t) /\ ValidatingInWindow(t) /\ rv[t] = seqlock
    /\ ~Consistent(read_set[t], accts)

AllDone == \A t \in Threads : pc[t] = "done"

\* C20: pure-NOrec termination.  When no HTM region commits, no counter
\* slot and no htmCount changes, swCount counts every finished transaction of
\* its thread once, every thread ends having committed its workload
\* transactions, seqlock is even when all have ended, and under weak fairness
\* all threads do end.
C20_PureNorecTermination ==
  /\ [](\A t \in Threads : swCount[t] = i[t] /\ htmCount[t] = 0)
  /\ [](counter = [s \in Slots |-> 0])
  /\ [](AllDone => ~Odd(seqlock) /\ \A t \in Threads : swCount[t] = workload)
  /\ <>AllDone

\* Every thread has ended and every transaction was a software commit that
\* wrote.
C20_Witness ==
  /\ AllDone
  /\ seqlock = 2 * numThreads * workload
  /\ \A t \in Threads : swCount[t] = workload
====
